---- MODULE Spec2Model ----
(***************************************************************************)
(* QuibbleCmd (quibble/cmd.py): the stage selector should_run and the      *)
(* pipeline driver execute(), with the lifetime of the service backends    *)
(* (database, HTTP server, virtual display, browser driver) it acquires.   *)
(*                                                                         *)
(* execute() is one sequential thread of control.  pc is its position,     *)
(* scopes the stack of `with` blocks it is inside, err the exception that  *)
(* is propagating, bstate the lifecycle state of every backend object and  *)
(* calls the history of the calls made to backends and stage executors.    *)
(***************************************************************************)
EXTENDS Naturals, Sequences, FiniteSets, TLC

\* Largest number of names given to --run, and to --skip.
MaxSel == 1

\* Largest number of projects given on the command line.
MaxProjects == 2

\* QuibbleCmd.stages
stages == {"phpunit", "npm-test", "composer-test", "qunit", "selenium"}

\* What --run and --skip are given: the stage names and the sentinel "all".
Selectors == stages \cup {"all"}

\* Project identifiers, as their path segments.
Core == <<"mediawiki", "core">>
Vendor == <<"mediawiki", "vendor">>
ExtFoo == <<"mediawiki", "extensions", "Foo">>
SkinBar == <<"mediawiki", "skins", "Bar">>
Vector == <<"mediawiki", "skins", "Vector">>
None == <<>>

\* The empty string, and the separator split('\\n') splits at: a backslash
\* followed by the letter n.
EmptyString == <<"">>
Sep == <<"\\n">>

\* os.environ['SKIN_DEPENDENCIES'] and os.environ['EXT_DEPENDENCIES']: None
\* when unset, and else the text, as its project names and separators.
SkinDepsEnv ==
    {None, <<<<>>>>, <<<<Vector>>>>, <<<<SkinBar, Sep, Vector>>>>}
ExtDepsEnv ==
    {None, <<<<ExtFoo>>>>, <<<<ExtFoo, Sep, Vendor>>>>, <<<<ExtFoo, Sep>>>>}

\* The choices of --db.
DbChoices == {"sqlite", "mysql", "postgres"}

\* os.environ['ZUUL_PROJECT'], None when unset.
ZuulEnv == {None, Core, Vendor, ExtFoo, SkinBar}

\* os.environ['DISPLAY'], None when unset.
DisplayEnv == {None, <<":0">>}

\* os.environ['DISPLAY'], the empty string and the display that execute()
\* gives an Xvfb included.
AnyDisplayEnv == DisplayEnv \cup {<<"">>, <<":94">>}

http_port == 9412

\* The backend objects execute() and mw_install() create.
Backends == {"db", "web", "xvfb", "chrome", "cmdweb"}

\* The kind of service behind each backend object.
Kind(b) ==
    CASE b = "db" -> "database"
      [] b \in {"web", "cmdweb"} -> "http-server"
      [] b = "xvfb" -> "virtual-display"
      [] b = "chrome" -> "browser-driver"

VARIABLES args, zuul_project, dependencies, tests_selenium, DISPLAY, display, pc,
          scopes, err, bstate, calls

vars == <<args, zuul_project, dependencies, tests_selenium, DISPLAY, display, pc,
          scopes, err, bstate, calls>>

\* str.startswith, on path segments: prefix is followed by a '/'.
StartsWith(project, prefix) ==
    /\ Len(project) > Len(prefix)
    /\ SubSeq(project, 1, Len(prefix)) = prefix

isExtOrSkin(project) ==
    \/ StartsWith(project, <<"mediawiki", "extensions">>)
    \/ StartsWith(project, <<"mediawiki", "skins">>)

\* should_run with "all" in --run decided before the stage's own skip
should_run_runAllFirst(stage) ==
    IF args.commands # <<>> THEN FALSE
    ELSE IF "all" \in args.skip THEN FALSE
    ELSE IF "all" \in args.run THEN TRUE
    ELSE IF stage \in args.skip THEN FALSE
    ELSE stage \in args.run

\* should_run without the sentinel "all" of --run
should_run_noRunAll(stage) ==
    IF args.commands # <<>> THEN FALSE
    ELSE IF "all" \in args.skip THEN FALSE
    ELSE IF stage \in args.skip THEN FALSE
    ELSE stage \in args.run

\* should_run without the check of --commands
should_run_ignoreCommands(stage) ==
    IF "all" \in args.skip THEN FALSE
    ELSE IF stage \in args.skip THEN FALSE
    ELSE IF "all" \in args.run THEN TRUE
    ELSE stage \in args.run

\* should_run without the sentinel "all" of --skip
should_run_noSkipAll(stage) ==
    IF args.commands # <<>> THEN FALSE
    ELSE IF stage \in args.skip THEN FALSE
    ELSE IF "all" \in args.run THEN TRUE
    ELSE stage \in args.run

should_run(stage) ==
    IF args.commands # <<>> THEN FALSE
    ELSE IF "all" \in args.skip THEN FALSE
    ELSE IF stage \in args.skip THEN FALSE
    ELSE IF "all" \in args.run THEN TRUE
    ELSE stage \in args.run

\* The command lines parse_arguments accepts.
ArgSpace ==
    [run : {s \in SUBSET Selectors : Cardinality(s) <= MaxSel},
     skip : {s \in SUBSET Selectors : Cardinality(s) <= MaxSel},
     commands : {<<>>, <<"cmd">>},
     skip_zuul : BOOLEAN,
     skip_deps : BOOLEAN,
     packages_source : {"composer", "vendor"},
     projects : {<<>>},
     db : {"mysql"}]

\* The sequences over S of at most n elements.
SeqsUpTo(S, n) == UNION {[1..k -> S] : k \in 0..n}

\* Command lines that differ in the projects they name.
ArgSpaceRepos ==
    [run : {{"all"}},
     skip : {{}},
     commands : {<<>>},
     skip_zuul : {FALSE},
     skip_deps : {FALSE},
     packages_source : {"composer", "vendor"},
     projects : SeqsUpTo({Vector, Vendor, ExtFoo}, MaxProjects),
     db : {"mysql"}]

\* Command lines that differ in the database engine they name, one that is
\* not among the choices included.
ArgSpaceDb ==
    [run : {{"all"}},
     skip : {{}},
     commands : {<<>>, <<"cmd">>},
     skip_zuul : BOOLEAN,
     skip_deps : BOOLEAN,
     packages_source : {"composer", "vendor"},
     projects : {<<>>},
     db : DbChoices \cup {"oracle"}]

\* Command lines that differ in the browser stages they select.
ArgSpaceSelenium ==
    LET Sel == {S \in SUBSET {"all", "qunit", "selenium"} : Cardinality(S) <= MaxSel}
    IN  [run : Sel,
         skip : Sel,
         commands : {<<>>, <<"cmd">>},
         skip_zuul : {FALSE},
         skip_deps : {FALSE},
         packages_source : {"composer"},
         projects : {<<>>},
         db : {"mysql"}]

InitWith(argv) ==
    /\ args \in argv
    /\ zuul_project = None
    /\ dependencies = <<>>
    /\ tests_selenium = "unchecked"
    /\ DISPLAY = None
    /\ display = None
    /\ pc = "execute"
    /\ scopes = <<>>
    /\ err = None
    /\ bstate = [b \in Backends |-> "not started"]
    /\ calls = <<>>

Init == InitWith(ArgSpace)
InitRepos == InitWith(ArgSpaceRepos)
InitDb == InitWith(ArgSpaceDb)
InitSelenium == InitWith(ArgSpaceSelenium)

\* The positions of execute(): each is the statement that is run next.
Positions ==
    {"execute", "clone", "extskin", "git_clean", "composer_update",
     "mw_install", "install", "npm_install", "phpunit_dbless", "run_core",
     "browser", "qunit", "selenium", "xvfb", "chrome", "webdriver",
     "exit_chrome", "exit_stack", "exit_web", "phpunit_db", "commands_group",
     "commands", "exit_cmdweb", "unwind", "returned", "raised",
     "Succeeded", "Failed"}

\* The values the state takes.
TypeOK ==
    /\ args \in ArgSpace \cup ArgSpaceRepos \cup ArgSpaceDb \cup ArgSpaceSelenium
    /\ zuul_project \in {None, Core, Vendor, ExtFoo, SkinBar}
    /\ tests_selenium \in {"unchecked", "exists", "missing"}
    /\ dependencies = <<>> \/ Head(dependencies) = Core
    /\ DISPLAY \in AnyDisplayEnv
    /\ display \in {None, <<":0">>, <<":94">>}
    /\ pc \in Positions
    /\ scopes \in {<<>>, <<"web">>, <<"web", "xvfb">>, <<"web", "chrome">>,
                   <<"web", "xvfb", "chrome">>, <<"cmdweb">>}
    /\ err = None \/ (Len(err) = 2 /\ err[1] \in {"exit", "raise", "exec", "start"})
    /\ bstate \in [Backends ->
                     {"not started", "running", "start failed", "stopped",
                      "stop failed"}]
    /\ \A i \in DOMAIN calls :
          /\ calls[i].op \in {"exec", "start", "stop"}
          /\ calls[i].ok \in BOOLEAN

Call(op, what, ok, arg) == [op |-> op, what |-> what, ok |-> ok, arg |-> arg]

\* Raise without any cleanup: the enclosing `with` blocks are not left.
Raise_noCleanup(e) ==
    /\ err' = e
    /\ pc' = "raised"

\* An exception leaves the statement that raised it: the innermost `with`
\* block is left next, and with no block around it execute() itself.
Raise(e) ==
    /\ err' = e
    /\ pc' = IF scopes = <<>> THEN "raised" ELSE "unwind"

\* Backend.start(): the service is running when it returns; when it raises,
\* nothing of it is left running.
start(b, ok, arg) ==
    /\ bstate' = [bstate EXCEPT ![b] = IF ok THEN "running" ELSE "start failed"]
    /\ calls' = Append(calls, Call("start", b, ok, arg))

\* Backend.stop(): a no-op unless the service is running.
stop(b, ok) ==
    /\ bstate' = [bstate EXCEPT ![b] =
                    IF bstate[b] # "running" THEN bstate[b]
                    ELSE IF ok THEN "stopped" ELSE "stop failed"]
    /\ calls' = Append(calls, Call("stop", b, ok, None))

\* A call whose failure is caught and logged: execute() goes on.
Invoke_ignoreFailure(what, arg, next) ==
    /\ \E ok \in BOOLEAN : calls' = Append(calls, Call("exec", what, ok, arg))
    /\ pc' = next
    /\ UNCHANGED err

\* A call that is made a second time when it fails.
Invoke_retryOnce(what, arg, next) ==
    \/ /\ calls' = Append(calls, Call("exec", what, TRUE, arg))
       /\ pc' = next
       /\ UNCHANGED err
    \/ /\ calls' = Append(Append(calls, Call("exec", what, FALSE, arg)),
                          Call("exec", what, TRUE, arg))
       /\ pc' = next
       /\ UNCHANGED err
    \/ /\ calls' = Append(Append(calls, Call("exec", what, FALSE, arg)),
                          Call("exec", what, FALSE, arg))
       /\ Raise(<<"exec", what>>)

\* A call of an external collaborator (quibble.test.*, quibble.zuul.clone,
\* subprocess.check_call): it returns, or it raises.
Invoke(what, arg, next) ==
    \/ /\ calls' = Append(calls, Call("exec", what, TRUE, arg))
       /\ pc' = next
       /\ UNCHANGED err
    \/ /\ calls' = Append(calls, Call("exec", what, FALSE, arg))
       /\ Raise(<<"exec", what>>)

\* `with Backend(...):` is entered: __enter__ starts the backend, and the
\* block is only inside the scope once the start has returned.
Enter(b, arg, next) ==
    \/ /\ start(b, TRUE, arg)
       /\ scopes' = Append(scopes, b)
       /\ pc' = next
       /\ UNCHANGED err
    \/ /\ start(b, FALSE, arg)
       /\ Raise(<<"start", b>>)
       /\ UNCHANGED scopes

\* The scope entered first is left first.
Outermost(s) == 1

\* The scope that is left next: the one entered last.
Innermost(s) == Len(s)

Without(s, i) == SubSeq(s, 1, i - 1) \o SubSeq(s, i + 1, Len(s))

\* Backend.__exit__ whose stop() failed while e was propagating (None: no
\* exception): the failure is logged and e is what goes on.
AfterStopFailure(e, b) == e

\* The end of a `with` block is reached: __exit__ stops the backend.
Exit(next) ==
    LET i == Innermost(scopes)
        rest == Without(scopes, i)
    IN  /\ scopes' = rest
        /\ \/ /\ stop(scopes[i], TRUE)
              /\ pc' = next
              /\ UNCHANGED err
           \/ /\ stop(scopes[i], FALSE)
              /\ err' = AfterStopFailure(err, scopes[i])
              /\ pc' = IF err' = None THEN next
                       ELSE IF rest = <<>> THEN "raised" ELSE "unwind"

\* The flags run_extskin and run_core are called with, as the stages they
\* stand for.
Flags(composer, npm) ==
    (IF composer THEN {"composer-test"} ELSE {})
        \cup (IF npm THEN {"npm-test"} ELSE {})

\* a \o b for strings, the empty string being EmptyString.
Cat(a, b) == IF b = EmptyString THEN a ELSE IF a = EmptyString THEN b ELSE a \o b

\* text.split('\\n'): the pieces of text between the separators, a piece
\* that has nothing in it being the empty string.
RECURSIVE split(_)
split(text) ==
    IF text = <<>> THEN <<EmptyString>>
    ELSE IF Head(text) = Sep THEN <<EmptyString>> \o split(Tail(text))
    ELSE LET rest == split(Tail(text))
         IN  <<Cat(Head(text), Head(rest))>> \o Tail(rest)

\* x in s, for a list s.
InList(x, s) == \E i \in DOMAIN s : s[i] = x

\* set_repos_to_clone() that appends mediawiki/core after the default skin.
set_repos_to_clone_coreAppended(deps, projects, clone_vendor, zuul, skin, ext) ==
    LET d2 == Append(Append(deps, Vector), Core)
        d3 == IF clone_vendor THEN Append(d2, Vendor) ELSE d2
        d4 == IF zuul # None /\ ~ InList(zuul, d3) THEN Append(d3, zuul) ELSE d3
        d5 == IF skin # None THEN d4 \o split(skin[1]) ELSE d4
        d6 == IF ext # None THEN d5 \o split(ext[1]) ELSE d5
    IN  d6 \o projects

\* set_repos_to_clone(): self.dependencies after the call, deps being
\* self.dependencies before it and zuul, skin and ext the environment's
\* ZUUL_PROJECT, SKIN_DEPENDENCIES and EXT_DEPENDENCIES.
set_repos_to_clone(deps, projects, clone_vendor, zuul, skin, ext) ==
    LET d1 == <<Core>> \o deps
        d2 == Append(d1, Vector)
        d3 == IF clone_vendor THEN Append(d2, Vendor) ELSE d2
        d4 == IF zuul # None /\ ~ InList(zuul, d3) THEN Append(d3, zuul) ELSE d3
        d5 == IF skin # None THEN d4 \o split(skin[1]) ELSE d4
        d6 == IF ext # None THEN d5 \o split(ext[1]) ELSE d5
    IN  d6 \o projects

\* parse_arguments() that takes any --db.
ParseArguments_anyEngine == TRUE

\* parse_arguments() returns: argparse exits on a --db that is not one of
\* the choices.
ParseArguments == args.db \in DbChoices

\* execute(), up to the clone of the projects, in an environment whose
\* SKIN_DEPENDENCIES is one of Skins and EXT_DEPENDENCIES one of Exts.
SetupFrom(Skins, Exts) ==
    /\ pc = "execute"
    /\ IF ParseArguments
       THEN /\ \E z \in ZuulEnv, skin \in Skins, ext \in Exts :
                 /\ zuul_project' = IF z = None THEN Core ELSE z
                 /\ dependencies' =
                       set_repos_to_clone(dependencies, args.projects,
                                          args.packages_source = "vendor",
                                          z, skin, ext)
            /\ pc' = "clone"
            /\ UNCHANGED err
       ELSE /\ err' = <<"exit", "parse_arguments">>
            /\ pc' = "raised"
            /\ UNCHANGED <<zuul_project, dependencies>>
    /\ UNCHANGED <<args, tests_selenium, DISPLAY, display, scopes, bstate, calls>>

\* execute(), up to the clone, with neither SKIN_DEPENDENCIES nor
\* EXT_DEPENDENCIES in the environment.
Setup == SetupFrom({None}, {None})

\* execute(), up to the clone, in any environment.
SetupAnyEnv == SetupFrom(SkinDepsEnv, ExtDepsEnv)

Clone ==
    /\ pc = "clone"
    /\ IF ~ args.skip_zuul
       THEN Invoke("clone", dependencies, "extskin")
       ELSE pc' = "extskin" /\ UNCHANGED <<err, calls>>
    /\ UNCHANGED <<args, zuul_project, dependencies, tests_selenium, DISPLAY, display, scopes, bstate>>

RunExtSkin ==
    /\ pc = "extskin"
    /\ LET run_composer == should_run("composer-test")
           run_npm == should_run("npm-test")
       IN  IF isExtOrSkin(zuul_project) /\ (run_composer \/ run_npm)
           THEN Invoke("run_extskin", Flags(run_composer, run_npm), "git_clean")
           ELSE pc' = "composer_update" /\ UNCHANGED <<err, calls>>
    /\ UNCHANGED <<args, zuul_project, dependencies, tests_selenium, DISPLAY, display, scopes, bstate>>

GitClean ==
    /\ pc = "git_clean"
    /\ Invoke("git_clean", None, "composer_update")
    /\ UNCHANGED <<args, zuul_project, dependencies, tests_selenium, DISPLAY, display, scopes, bstate>>

ComposerUpdate ==
    /\ pc = "composer_update"
    /\ IF ~ args.skip_deps /\ args.packages_source = "composer"
       THEN Invoke("composer_update", None, "mw_install")
       ELSE pc' = "mw_install" /\ UNCHANGED <<err, calls>>
    /\ UNCHANGED <<args, zuul_project, dependencies, tests_selenium, DISPLAY, display, scopes, bstate>>

\* mw_install(): the database backend is created, kept and started
MwInstallStart ==
    /\ pc = "mw_install"
    /\ \/ /\ start("db", TRUE, None)
          /\ pc' = "install"
          /\ UNCHANGED err
       \/ /\ start("db", FALSE, None)
          /\ Raise(<<"start", "db">>)
    /\ UNCHANGED <<args, zuul_project, dependencies, tests_selenium, DISPLAY, display, scopes>>

\* mw_install() that owns the database backend and stops it on return.
MwInstall_scopedDb ==
    /\ pc = "install"
    /\ \/ /\ calls' = Append(Append(calls, Call("exec", "install", TRUE, None)),
                             Call("stop", "db", TRUE, None))
          /\ pc' = "npm_install"
          /\ UNCHANGED err
       \/ /\ calls' = Append(Append(calls, Call("exec", "install", FALSE, None)),
                             Call("stop", "db", TRUE, None))
          /\ Raise(<<"exec", "install">>)
    /\ bstate' = [bstate EXCEPT !["db"] = "stopped"]
    /\ UNCHANGED <<args, zuul_project, dependencies, tests_selenium, DISPLAY, display, scopes>>

\* mw_install(): install.php, LocalSettings.php, update.php
MwInstall ==
    /\ pc = "install"
    /\ IF args.db = "sqlite" \/ args.db \in {"mysql", "postgres"}
       THEN Invoke("install", None, "npm_install")
       ELSE Raise(<<"raise", "mw_install">>) /\ UNCHANGED calls
    /\ UNCHANGED <<args, zuul_project, dependencies, tests_selenium, DISPLAY, display, scopes, bstate>>

NpmInstall ==
    /\ pc = "npm_install"
    /\ IF ~ args.skip_deps
       THEN Invoke("npm_install", None, "phpunit_dbless")
       ELSE pc' = "phpunit_dbless" /\ UNCHANGED <<err, calls>>
    /\ UNCHANGED <<args, zuul_project, dependencies, tests_selenium, DISPLAY, display, scopes, bstate>>

\* The database-backed phpunit group run where the no-database one is.
PhpunitDatabaseless_dbGroup ==
    /\ pc = "phpunit_dbless"
    /\ IF should_run("phpunit")
       THEN Invoke("run_phpunit_database", <<"junit-db.xml">>, "run_core")
       ELSE pc' = "run_core" /\ UNCHANGED <<err, calls>>
    /\ UNCHANGED <<args, zuul_project, dependencies, tests_selenium, DISPLAY, display, scopes, bstate>>

PhpunitDatabaseless ==
    /\ pc = "phpunit_dbless"
    /\ IF should_run("phpunit")
       THEN Invoke("run_phpunit_databaseless", <<"junit-dbless.xml">>, "run_core")
       ELSE pc' = "run_core" /\ UNCHANGED <<err, calls>>
    /\ UNCHANGED <<args, zuul_project, dependencies, tests_selenium, DISPLAY, display, scopes, bstate>>

RunCore ==
    /\ pc = "run_core"
    /\ IF zuul_project = Core
       THEN Invoke("run_core",
                   Flags(should_run("composer-test"), should_run("npm-test")),
                   "browser")
       ELSE pc' = "browser" /\ UNCHANGED <<err, calls>>
    /\ UNCHANGED <<args, zuul_project, dependencies, tests_selenium, DISPLAY, display, scopes, bstate>>

\* The web server started for qunit alone.
BrowserGroup_qunitOnly ==
    /\ pc = "browser"
    /\ IF should_run("qunit")
       THEN Enter("web", http_port, "qunit")
       ELSE pc' = "phpunit_db" /\ UNCHANGED <<err, bstate, calls, scopes>>
    /\ UNCHANGED <<args, zuul_project, dependencies, tests_selenium, DISPLAY, display>>

\* The web server started whatever is selected.
BrowserGroup_always ==
    /\ pc = "browser"
    /\ Enter("web", http_port, "qunit")
    /\ UNCHANGED <<args, zuul_project, dependencies, tests_selenium, DISPLAY, display>>

\* `with DevWebServer(...)` around the qunit and selenium stages
BrowserGroup ==
    /\ pc = "browser"
    /\ IF should_run("qunit") \/ should_run("selenium")
       THEN Enter("web", http_port, "qunit")
       ELSE pc' = "phpunit_db" /\ UNCHANGED <<err, bstate, calls, scopes>>
    /\ UNCHANGED <<args, zuul_project, dependencies, tests_selenium, DISPLAY, display>>

RunQunit ==
    /\ pc = "qunit"
    /\ IF should_run("qunit")
       THEN Invoke("run_qunit", http_port, "selenium")
       ELSE pc' = "selenium" /\ UNCHANGED <<err, calls>>
    /\ UNCHANGED <<args, zuul_project, dependencies, tests_selenium, DISPLAY, display, scopes, bstate>>

\* The selenium stage entered without a look at tests/selenium.
Selenium_noDirCheck(Displays) ==
    /\ pc = "selenium"
    /\ IF should_run("selenium")
       THEN \E exists \in BOOLEAN, d \in Displays :
              /\ tests_selenium' = IF exists THEN "exists" ELSE "missing"
              /\ DISPLAY' = d
              /\ IF d \in {None, <<"">>}
                 THEN display' = <<":94">> /\ pc' = "xvfb"
                 ELSE display' = d /\ pc' = "chrome"
       ELSE pc' = "exit_web" /\ UNCHANGED <<DISPLAY, display, tests_selenium>>
    /\ UNCHANGED <<args, zuul_project, dependencies, scopes, err, bstate, calls>>

\* The selenium stage with `if display is None`: an empty DISPLAY is used
\* as it is.
Selenium_emptyIsSet(Displays) ==
    /\ pc = "selenium"
    /\ IF should_run("selenium")
       THEN \E exists \in BOOLEAN, d \in Displays :
              /\ tests_selenium' = IF exists THEN "exists" ELSE "missing"
              /\ IF exists
                 THEN /\ DISPLAY' = d
                      /\ IF d = None
                         THEN display' = <<":94">> /\ pc' = "xvfb"
                         ELSE display' = d /\ pc' = "chrome"
                 ELSE pc' = "exit_web" /\ UNCHANGED <<DISPLAY, display>>
       ELSE pc' = "exit_web" /\ UNCHANGED <<DISPLAY, display, tests_selenium>>
    /\ UNCHANGED <<args, zuul_project, dependencies, scopes, err, bstate, calls>>

\* The selenium stage is entered when it is selected and tests/selenium
\* exists, which is only looked at when the stage is selected: the ExitStack
\* is opened and the display is chosen, DISPLAY being one of Displays.
SeleniumFrom(Displays) ==
    /\ pc = "selenium"
    /\ IF should_run("selenium")
       THEN \E exists \in BOOLEAN, d \in Displays :
              /\ tests_selenium' = IF exists THEN "exists" ELSE "missing"
              /\ IF exists
                 THEN /\ DISPLAY' = d
                      /\ IF d \in {None, <<"">>}
                         THEN display' = <<":94">> /\ pc' = "xvfb"
                         ELSE display' = d /\ pc' = "chrome"
                 ELSE pc' = "exit_web" /\ UNCHANGED <<DISPLAY, display>>
       ELSE pc' = "exit_web" /\ UNCHANGED <<DISPLAY, display, tests_selenium>>
    /\ UNCHANGED <<args, zuul_project, dependencies, scopes, err, bstate, calls>>

\* The selenium stage, DISPLAY being unset or a display other than the one
\* execute() gives an Xvfb.
Selenium == SeleniumFrom(DisplayEnv)

\* The selenium stage, DISPLAY being anything.
SeleniumAnyDisplay == SeleniumFrom(AnyDisplayEnv)

\* stack.enter_context(Xvfb(display=display))
EnterXvfb ==
    /\ pc = "xvfb"
    /\ Enter("xvfb", display, "chrome")
    /\ UNCHANGED <<args, zuul_project, dependencies, tests_selenium, DISPLAY, display>>

\* `with ChromeWebDriver(display=display)`
EnterChromeWebDriver ==
    /\ pc = "chrome"
    /\ Enter("chrome", display, "webdriver")
    /\ UNCHANGED <<args, zuul_project, dependencies, tests_selenium, DISPLAY, display>>

RunWebdriver ==
    /\ pc = "webdriver"
    /\ Invoke("run_webdriver", display, "exit_chrome")
    /\ UNCHANGED <<args, zuul_project, dependencies, tests_selenium, DISPLAY, display, scopes, bstate>>

ExitChromeWebDriver ==
    /\ pc = "exit_chrome"
    /\ Exit("exit_stack")
    /\ UNCHANGED <<args, zuul_project, dependencies, tests_selenium, DISPLAY, display>>

\* The ExitStack is left: it stops the Xvfb it was given, if any.
ExitStackExit ==
    /\ pc = "exit_stack"
    /\ IF scopes[Len(scopes)] = "xvfb"
       THEN Exit("exit_web")
       ELSE pc' = "exit_web" /\ UNCHANGED <<err, bstate, calls, scopes>>
    /\ UNCHANGED <<args, zuul_project, dependencies, tests_selenium, DISPLAY, display>>

\* The web server left running for the stages that follow.
ExitDevWebServer_deferred ==
    /\ pc = "exit_web"
    /\ pc' = "phpunit_db"
    /\ UNCHANGED <<args, zuul_project, dependencies, tests_selenium, DISPLAY, display,
                   scopes, err, bstate, calls>>

ExitDevWebServer ==
    /\ pc = "exit_web"
    /\ Exit("phpunit_db")
    /\ UNCHANGED <<args, zuul_project, dependencies, tests_selenium, DISPLAY, display>>

\* The database-backed phpunit group reporting to the file of the
\* no-database one.
PhpunitDatabase_dblessFile ==
    /\ pc = "phpunit_db"
    /\ IF should_run("phpunit")
       THEN Invoke("run_phpunit_database", <<"junit-dbless.xml">>, "commands_group")
       ELSE pc' = "commands_group" /\ UNCHANGED <<err, calls>>
    /\ UNCHANGED <<args, zuul_project, dependencies, tests_selenium, DISPLAY, display, scopes, bstate>>

PhpunitDatabase ==
    /\ pc = "phpunit_db"
    /\ IF should_run("phpunit")
       THEN Invoke("run_phpunit_database", <<"junit-db.xml">>, "commands_group")
       ELSE pc' = "commands_group" /\ UNCHANGED <<err, calls>>
    /\ UNCHANGED <<args, zuul_project, dependencies, tests_selenium, DISPLAY, display, scopes, bstate>>

\* `with DevWebServer(...)` around the user commands
CommandsGroup ==
    /\ pc = "commands_group"
    /\ IF args.commands # <<>>
       THEN Enter("cmdweb", http_port, "commands")
       ELSE pc' = "returned" /\ UNCHANGED <<err, bstate, calls, scopes>>
    /\ UNCHANGED <<args, zuul_project, dependencies, tests_selenium, DISPLAY, display>>

RunCommands ==
    /\ pc = "commands"
    /\ Invoke("commands", args.commands, "exit_cmdweb")
    /\ UNCHANGED <<args, zuul_project, dependencies, tests_selenium, DISPLAY, display, scopes, bstate>>

ExitCommandsWebServer ==
    /\ pc = "exit_cmdweb"
    /\ Exit("returned")
    /\ UNCHANGED <<args, zuul_project, dependencies, tests_selenium, DISPLAY, display>>

\* Only the innermost `with` block is left before the exception surfaces.
Unwind_innermostOnly ==
    /\ pc = "unwind"
    /\ LET i == Innermost(scopes)
       IN  /\ scopes' = Without(scopes, i)
           /\ pc' = "raised"
           /\ \/ /\ stop(scopes[i], TRUE)
                 /\ UNCHANGED err
              \/ /\ stop(scopes[i], FALSE)
                 /\ err' = AfterStopFailure(err, scopes[i])
    /\ UNCHANGED <<args, zuul_project, dependencies, tests_selenium, DISPLAY, display>>

\* The exception surfaces at once when the stop of a `with` block fails: the
\* enclosing blocks are not left.
Unwind_stopOnTeardownFailure ==
    /\ pc = "unwind"
    /\ LET i == Innermost(scopes)
           rest == Without(scopes, i)
       IN  \/ /\ stop(scopes[i], TRUE)
              /\ scopes' = rest
              /\ pc' = IF rest = <<>> THEN "raised" ELSE "unwind"
              /\ UNCHANGED err
           \/ /\ stop(scopes[i], FALSE)
              /\ scopes' = <<>>
              /\ pc' = "raised"
              /\ err' = AfterStopFailure(err, scopes[i])
    /\ UNCHANGED <<args, zuul_project, dependencies, tests_selenium, DISPLAY, display>>

\* An exception leaves the innermost `with` block: __exit__ stops its
\* backend, and the next enclosing block is left after it.
Unwind ==
    /\ pc = "unwind"
    /\ LET i == Innermost(scopes)
           rest == Without(scopes, i)
       IN  /\ scopes' = rest
           /\ pc' = IF rest = <<>> THEN "raised" ELSE "unwind"
           /\ \/ /\ stop(scopes[i], TRUE)
                 /\ UNCHANGED err
              \/ /\ stop(scopes[i], FALSE)
                 /\ err' = AfterStopFailure(err, scopes[i])
    /\ UNCHANGED <<args, zuul_project, dependencies, tests_selenium, DISPLAY, display>>

\* main() is left, by execute() returning or raising: the QuibbleCmd object
\* and the backends it holds are released, which stops the database.
Teardown ==
    /\ pc \in {"returned", "raised"}
    /\ \E ok \in BOOLEAN : stop("db", ok)
    /\ pc' = IF pc = "returned" THEN "Succeeded" ELSE "Failed"
    /\ UNCHANGED <<args, zuul_project, dependencies, tests_selenium, DISPLAY, display, scopes, err>>

Next ==
    \/ Setup
    \/ Clone
    \/ RunExtSkin
    \/ GitClean
    \/ ComposerUpdate
    \/ MwInstallStart
    \/ MwInstall
    \/ NpmInstall
    \/ PhpunitDatabaseless
    \/ RunCore
    \/ BrowserGroup
    \/ RunQunit
    \/ Selenium
    \/ EnterXvfb
    \/ EnterChromeWebDriver
    \/ RunWebdriver
    \/ ExitChromeWebDriver
    \/ ExitStackExit
    \/ ExitDevWebServer
    \/ PhpunitDatabase
    \/ CommandsGroup
    \/ RunCommands
    \/ ExitCommandsWebServer
    \/ Unwind
    \/ Teardown

Spec == Init /\ [][Next]_vars

\* The runs on command lines that name projects, up to the list of the
\* projects to clone.
NextRepos == SetupAnyEnv

SpecRepos == InitRepos /\ [][NextRepos]_vars

\* The runs on command lines that name a database engine.
SpecDb == InitDb /\ [][Next]_vars

\* execute() in an environment whose DISPLAY is anything.
NextSelenium ==
    \/ Setup
    \/ Clone
    \/ RunExtSkin
    \/ GitClean
    \/ ComposerUpdate
    \/ MwInstallStart
    \/ MwInstall
    \/ NpmInstall
    \/ PhpunitDatabaseless
    \/ RunCore
    \/ BrowserGroup
    \/ RunQunit
    \/ SeleniumAnyDisplay
    \/ EnterXvfb
    \/ EnterChromeWebDriver
    \/ RunWebdriver
    \/ ExitChromeWebDriver
    \/ ExitStackExit
    \/ ExitDevWebServer
    \/ PhpunitDatabase
    \/ CommandsGroup
    \/ RunCommands
    \/ ExitCommandsWebServer
    \/ Unwind
    \/ Teardown

\* The runs on command lines that select the browser stages or not, in any
\* environment.
SpecSelenium == InitSelenium /\ [][NextSelenium]_vars

(***************************************************************************)
(* What the history of calls says.                                         *)
(***************************************************************************)
Count(op, what) ==
    Cardinality({i \in DOMAIN calls : calls[i].op = op /\ calls[i].what = what})

Called(op, what) == \E i \in DOMAIN calls : calls[i].op = op /\ calls[i].what = what

\* The call at position i does the work of the named stage.
Performs(i, stage) ==
    /\ calls[i].op = "exec"
    /\ CASE stage = "phpunit" ->
              calls[i].what \in {"run_phpunit_databaseless", "run_phpunit_database"}
         [] stage = "qunit" -> calls[i].what = "run_qunit"
         [] stage = "selenium" -> calls[i].what = "run_webdriver"
         [] OTHER ->
              /\ calls[i].what \in {"run_extskin", "run_core"}
              /\ stage \in calls[i].arg

Performed(stage) == \E i \in DOMAIN calls : Performs(i, stage)

Terminal == pc \in {"Succeeded", "Failed"}

\* Nothing failed before the call of `what`, if there is any failure at all.
NoFailureBefore(what) ==
    \A i \in DOMAIN calls :
        ~ calls[i].ok =>
            \E j \in 1..i : calls[j].op = "exec" /\ calls[j].what = what

(***************************************************************************)
(* Stage selection                                                         *)
(***************************************************************************)
\* C1: for every configuration and every stage name, should_run(stage) is the
\* result of the five rules in their order: false with commands, false with
\* "all" skipped, false with the stage skipped, true with "all" requested,
\* and otherwise true exactly when the stage is requested.  So run = {a},
\* skip = {} selects a and not b, and run = {all}, skip = {a} selects b and
\* not a.
C1_ShouldRunPrecedence ==
    /\ \A stage \in stages \cup {"other"} :
         should_run(stage) <=>
            /\ args.commands = <<>>
            /\ "all" \notin args.skip
            /\ stage \notin args.skip
            /\ ("all" \in args.run \/ stage \in args.run)
    /\ \A a \in stages : \A b \in stages \ {a} :
         /\ args.commands = <<>> /\ args.run = {a} /\ args.skip = {}
               => should_run(a) /\ ~ should_run(b)
         /\ args.commands = <<>> /\ args.run = {"all"} /\ args.skip = {a}
               => ~ should_run(a) /\ should_run(b)

\* A run with run = {all}, skip = {qunit} that has gone through the browser
\* stages: selenium was performed and qunit was not.
C1_Witness ==
    /\ args.commands = <<>> /\ args.run = {"all"} /\ args.skip = {"qunit"}
    /\ pc = "Succeeded"
    /\ Performed("selenium") /\ ~ Performed("qunit")

\* C2 as stated: with no command overrides and no skips, should_run is true
\* for every stage of the fixed set.
C2_Original ==
    (args.commands = <<>> /\ args.skip = {})
        => \A stage \in stages : should_run(stage)

\* C2, amended: with no command overrides and no skips, should_run is true
\* for every stage of the fixed set when "all" is requested (the default),
\* and otherwise for exactly the stages that are requested.
C2_AllStagesByDefault ==
    (args.commands = <<>> /\ args.skip = {})
        => /\ "all" \in args.run => \A stage \in stages : should_run(stage)
           /\ "all" \notin args.run =>
                 \A stage \in stages : should_run(stage) <=> stage \in args.run

\* The default run, finished: every browser and phpunit stage was performed.
C2_Witness ==
    /\ args.commands = <<>> /\ args.skip = {} /\ args.run = {"all"}
    /\ pc = "Succeeded"
    /\ \A stage \in {"phpunit", "qunit", "selenium"} : Performed(stage)

(***************************************************************************)
(* Command overrides                                                       *)
(***************************************************************************)
\* In a run with commands, the commands are called only after mw_install has
\* returned and inside the scope of their own running HTTP server, whose
\* stop is invoked, once, after them.
CommandsInServerScope ==
    /\ \A i \in DOMAIN calls :
         (calls[i].op = "exec" /\ calls[i].what = "commands") =>
            /\ \E j \in 1..(i - 1) :
                  calls[j] = Call("exec", "install", TRUE, None)
            /\ \E j \in 1..(i - 1) :
                  calls[j] = Call("start", "cmdweb", TRUE, http_port)
            /\ \A j \in 1..(i - 1) :
                  ~ (calls[j].op = "stop" /\ calls[j].what = "cmdweb")
    /\ pc = "commands" => bstate["cmdweb"] = "running"
    /\ Count("start", "cmdweb") <= 1
    /\ (Called("exec", "commands") /\ pc \notin {"exit_cmdweb", "unwind"})
         => Count("stop", "cmdweb") = 1 /\ bstate["cmdweb"] # "running"

\* C3 as stated: in any run with commands no named stage runs and the
\* commands are executed exactly once, after mw_install, inside their own
\* HTTP server scope.
C3_Original ==
    (args.commands # <<>> /\ Terminal)
        => /\ \A stage \in stages : ~ Performed(stage)
           /\ Count("exec", "commands") = 1
           /\ CommandsInServerScope

\* C3, amended: in any run with commands no named stage runs, and the
\* commands are executed at most once, and exactly once in every run in
\* which no earlier step failed (clone, dependency install, mw_install, the
\* start of their HTTP server); they are executed after mw_install has
\* completed, while an HTTP server started for them is running, and that
\* server is stopped after they finish.
C3_CommandsInsteadOfStages ==
    args.commands # <<>>
        => /\ \A stage \in stages : ~ Performed(stage)
           /\ Count("exec", "commands") <= 1
           /\ (Terminal /\ NoFailureBefore("commands"))
                 => Count("exec", "commands") = 1
           /\ CommandsInServerScope

\* A run of mediawiki/core with commands and every stage requested, ended
\* after the commands ran.
C3_Witness ==
    /\ args.commands # <<>> /\ args.run = {"all"} /\ args.skip = {}
    /\ zuul_project = Core
    /\ pc = "Succeeded"
    /\ Called("exec", "commands")

(***************************************************************************)
(* Skipping everything                                                     *)
(***************************************************************************)
\* C4 as stated: with "all" skipped no named stage runs, whatever is
\* requested, and no HTTP server, virtual display or browser driver is
\* started.
C4_Original ==
    "all" \in args.skip
        => /\ \A stage \in stages : ~ Performed(stage)
           /\ \A b \in {"web", "cmdweb", "xvfb", "chrome"} : ~ Called("start", b)

\* C4, amended: with "all" skipped no named stage runs, whatever is
\* requested, and no virtual display, browser driver or HTTP server of the
\* browser stages is started; the only backend started besides the database
\* is the HTTP server of the command overrides, when commands are given.
C4_SkipAllRunsNoStage ==
    "all" \in args.skip
        => /\ \A stage \in stages : ~ Performed(stage)
           /\ \A b \in {"web", "xvfb", "chrome"} : ~ Called("start", b)
           /\ Called("start", "cmdweb") => args.commands # <<>>

\* A finished run of mediawiki/core with "all" skipped and qunit requested.
C4_Witness ==
    /\ "all" \in args.skip /\ "qunit" \in args.run /\ args.commands = <<>>
    /\ zuul_project = Core
    /\ pc = "Succeeded"
    /\ Called("exec", "run_core")

(***************************************************************************)
(* Backend scopes of the browser stages                                    *)
(***************************************************************************)
IsCall(i, op, what) == calls[i].op = op /\ calls[i].what = what

StartedOk(b) == \E i \in DOMAIN calls : IsCall(i, "start", b) /\ calls[i].ok

\* execute() is past the `with DevWebServer` block of the browser stages, or
\* has raised.
PastBrowserGroup ==
    pc \in {"phpunit_db", "commands_group", "commands", "exit_cmdweb",
            "returned", "raised", "Succeeded", "Failed"}

\* C5: in a run that acquires both Xvfb and ChromeWebDriver, the start of
\* the display has returned before the start of the driver is invoked, and
\* the stop of the driver has returned before the stop of the display is
\* invoked, whether run_webdriver returned or raised; both are stopped when
\* the group is left.
C5_DisplayEnclosesDriver ==
    (StartedOk("xvfb") /\ StartedOk("chrome"))
        => /\ \A i \in DOMAIN calls : \A j \in DOMAIN calls :
                 (IsCall(i, "start", "xvfb") /\ IsCall(j, "start", "chrome"))
                    => i < j
           /\ \A i \in DOMAIN calls :
                 IsCall(i, "stop", "xvfb")
                    => \E j \in 1..(i - 1) : IsCall(j, "stop", "chrome")
           /\ PastBrowserGroup
                 => Count("stop", "chrome") = 1 /\ Count("stop", "xvfb") = 1

\* run_webdriver raised under Xvfb, and the error has left execute().
C5_Witness ==
    /\ pc = "raised"
    /\ \E i \in DOMAIN calls : IsCall(i, "exec", "run_webdriver") /\ ~ calls[i].ok
    /\ StartedOk("xvfb")
    /\ Called("stop", "xvfb") /\ Called("stop", "chrome")

BrowserStageRaised ==
    \E i \in DOMAIN calls :
        /\ calls[i].op = "exec"
        /\ calls[i].what \in {"run_qunit", "run_webdriver"}
        /\ ~ calls[i].ok

\* C6: when run_qunit or run_webdriver raises, the stop of the HTTP server of
\* the browser stages has been invoked exactly once by the time the error
\* leaves execute(); it is never invoked twice.
C6_ServerStoppedOnStageFailure ==
    /\ Count("stop", "web") <= 1
    /\ (BrowserStageRaised /\ pc \in {"raised", "Failed"})
          => /\ Count("stop", "web") = 1
             /\ \A i \in DOMAIN calls : \A j \in DOMAIN calls :
                   (calls[i].op = "exec" /\ ~ calls[i].ok /\ IsCall(j, "stop", "web"))
                      => i < j

\* run_qunit raised and the error has just left execute().
C6_Witness ==
    /\ pc = "raised"
    /\ err = <<"exec", "run_qunit">>
    /\ Called("stop", "web")

\* C7: with qunit or selenium selected one HTTP server is started for the
\* browser stages: it is running before the first of them is invoked, it is
\* neither stopped nor started again between them, and it is stopped once
\* when the group is left, whether the stages returned, raised or were
\* skipped.
C7_OneServerPerBrowserGroup ==
    /\ Count("start", "web") <= 1
    /\ Called("start", "web") => should_run("qunit") \/ should_run("selenium")
    /\ pc \in {"qunit", "selenium", "xvfb", "chrome", "webdriver",
               "exit_chrome", "exit_stack", "exit_web"}
          => /\ bstate["web"] = "running"
             /\ Count("start", "web") = 1
             /\ Count("stop", "web") = 0
    /\ \A i \in DOMAIN calls :
          (calls[i].op = "exec" /\ calls[i].what \in {"run_qunit", "run_webdriver"})
             => /\ \E j \in 1..(i - 1) : calls[j] = Call("start", "web", TRUE, http_port)
                /\ \A j \in 1..(i - 1) : ~ IsCall(j, "stop", "web")
    /\ (StartedOk("web") /\ PastBrowserGroup)
          => Count("stop", "web") = 1 /\ bstate["web"] # "running"
    /\ ((should_run("qunit") \/ should_run("selenium"))
            /\ pc \in {"phpunit_db", "commands_group", "returned", "Succeeded"})
          => Count("start", "web") = 1

\* qunit and selenium both ran under the server, which is stopped now.
C7_Witness ==
    /\ pc = "phpunit_db"
    /\ Called("exec", "run_qunit") /\ Called("exec", "run_webdriver")
    /\ Count("stop", "web") = 1

\* C8: with neither qunit nor selenium selected no HTTP server, virtual
\* display or browser driver of the browser stages is ever started, and with
\* selenium not selected no virtual display or browser driver is.
C8_NoSpeculativeStart ==
    /\ (~ should_run("qunit") /\ ~ should_run("selenium"))
          => \A b \in {"web", "xvfb", "chrome"} : ~ Called("start", b)
    /\ ~ should_run("selenium")
          => \A b \in {"xvfb", "chrome"} : ~ Called("start", b)

\* A finished run in which phpunit ran and neither qunit nor selenium was
\* selected.
C8_Witness ==
    /\ pc = "Succeeded"
    /\ ~ should_run("qunit") /\ ~ should_run("selenium")
    /\ Called("exec", "run_phpunit_databaseless")
    /\ Called("exec", "run_phpunit_database")

(***************************************************************************)
(* The database backend and teardown                                       *)
(***************************************************************************)
LaterExecutors ==
    {"run_phpunit_databaseless", "run_core", "run_qunit", "run_webdriver",
     "run_phpunit_database", "commands"}

\* C9: the database backend started by mw_install is not stopped when the
\* install ends: from the return of its start until teardown it is running
\* and its stop is not invoked, every later stage executor is invoked while
\* it runs, and no second database backend is started.
C9_DatabaseRunsThroughout ==
    /\ Count("start", "db") <= 1
    /\ (StartedOk("db") /\ ~ Terminal)
          => bstate["db"] = "running" /\ ~ Called("stop", "db")
    /\ \A i \in DOMAIN calls :
          (calls[i].op = "exec" /\ calls[i].what \in LaterExecutors)
             => /\ \E j \in 1..(i - 1) : calls[j] = Call("start", "db", TRUE, None)
                /\ \A j \in 1..(i - 1) : ~ IsCall(j, "stop", "db")
    /\ pc \in {"qunit", "webdriver", "commands"} => bstate["db"] = "running"

\* execute() has returned after both phpunit groups and the browser stages,
\* and the database is still running.
C9_Witness ==
    /\ pc = "returned"
    /\ Called("exec", "run_phpunit_databaseless")
    /\ Called("exec", "run_webdriver")
    /\ Called("exec", "run_phpunit_database")
    /\ bstate["db"] = "running"

\* C10: when the run reaches Succeeded or Failed, every backend whose start
\* returned during the run, the database of mw_install included, has had its
\* stop invoked after that start, and none is left running; this holds after
\* success, after a stage executor failure and after a backend start
\* failure.
C10_TeardownBeforeTerminal ==
    Terminal
        => /\ scopes = <<>>
           /\ \A b \in Backends :
                 /\ bstate[b] # "running"
                 /\ \A i \in DOMAIN calls :
                       (IsCall(i, "start", b) /\ calls[i].ok)
                          => \E j \in (i + 1)..Len(calls) : IsCall(j, "stop", b)

\* The start of ChromeWebDriver failed under Xvfb and the run has ended.
C10_Witness ==
    /\ pc = "Failed"
    /\ err = <<"start", "chrome">>
    /\ StartedOk("xvfb") /\ StartedOk("web") /\ StartedOk("db")
    /\ bstate["chrome"] = "start failed"
\* The calls that can make a run fail: those of the stage executors and the
\* other external commands, and the starts of the backends.
Failure(i) == calls[i].op \in {"exec", "start"} /\ ~ calls[i].ok

\* C11: the first failure of a stage executor or of a backend start is fatal.
\* After it nothing but stops of backends is invoked (no executor, no
\* start), execute() is unwinding or has raised, and the run that has ended
\* has ended in Failed.
C11_FirstFailureIsFatal ==
    \A i \in DOMAIN calls :
        Failure(i) =>
            /\ \A j \in DOMAIN calls : j > i => calls[j].op = "stop"
            /\ err = <<calls[i].op, calls[i].what>>
            /\ pc \in {"unwind", "raised", "Failed"}

\* The start of ChromeWebDriver failed and the run has ended, with the web
\* server and the database stopped after the failure.
C11_Witness ==
    /\ pc = "Failed"
    /\ \E i \in DOMAIN calls :
          /\ IsCall(i, "start", "chrome") /\ ~ calls[i].ok
          /\ \E j \in DOMAIN calls : j > i /\ IsCall(j, "stop", "web")
          /\ \E j \in DOMAIN calls : j > i /\ IsCall(j, "stop", "db")
    /\ ~ Called("exec", "run_webdriver")
    /\ ~ Called("exec", "run_phpunit_database")
    /\ should_run("phpunit")

\* The place of a call in the order of the stage groups, the calls of one
\* group in the order of its steps; npm is the place of the installation of
\* the npm and composer development dependencies. The clone comes before
\* the groups and the release of the database after them.
GroupOrder(c, npm) ==
    CASE c.what = "clone" -> 0
      [] c.what \in {"run_extskin", "git_clean"} -> 10
      [] c.what = "composer_update" -> 20
      [] c.what = "npm_install" -> npm
      [] c.what = "db" /\ c.op = "start" -> 30
      [] c.what = "install" -> 31
      [] c.what = "run_phpunit_databaseless" -> 40
      [] c.what = "run_core" -> 50
      [] c.what = "web" /\ c.op = "start" -> 60
      [] c.what = "run_qunit" -> 61
      [] c.what \in {"xvfb", "chrome", "run_webdriver"} -> 62
      [] c.what = "web" /\ c.op = "stop" -> 63
      [] c.what = "run_phpunit_database" -> 70
      [] c.what \in {"cmdweb", "commands"} -> 80
      [] c.what = "db" /\ c.op = "stop" -> 90

\* Each call is in its place after the one before it, so that the calls are
\* in the order of the stage groups, and the backends of the
\* browser-stage group are no longer running when a later group starts.
InGroupOrder(npm) ==
    /\ \A i \in 1 .. Len(calls) - 1 :
          GroupOrder(calls[i], npm) <= GroupOrder(calls[i + 1], npm)
    /\ pc \in {"phpunit_db", "commands_group", "commands", "exit_cmdweb"} =>
          \A b \in {"web", "xvfb", "chrome"} : bstate[b] # "running"

\* C12 as stated: the stage groups execute in one fixed order, the whole of
\* the environment install before the installation-time database-backed
\* setup.
C12_Original == InGroupOrder(21)

\* C12: the stage groups execute in one fixed order in every run, whatever
\* the outcome of a call: extension/skin checks, composer update, database
\* start and installation, installation of the npm and composer development
\* dependencies, no-database phpunit, core package-manager stages, browser
\* group with qunit before selenium, database-backed phpunit, commands; a
\* group starts when the one before it has finished.
C12_FixedGroupOrder == InGroupOrder(32)

\* A run of mediawiki/core that went through every group it has, the
\* dependencies installed on either side of the installation.
C12_Witness ==
    /\ pc = "Succeeded"
    /\ \A w \in {"composer_update", "install", "npm_install",
                  "run_phpunit_databaseless", "run_core", "run_qunit",
                  "run_webdriver", "run_phpunit_database"} : Called("exec", w)

\* The number of places of the list s that hold x.
Occurrences(x, s) == Cardinality({i \in DOMAIN s : s[i] = x})

\* set_repos_to_clone() has returned.
ReposSet == pc = "clone"

\* C13: the list set_repos_to_clone returns has mediawiki/core as its first
\* element and contains mediawiki/skins/Vector, whatever the projects and the
\* environment; it contains mediawiki/vendor when clone_vendor is true.
C13_CoreFirst ==
    ReposSet =>
        /\ dependencies # <<>>
        /\ Head(dependencies) = Core
        /\ InList(Vector, dependencies)
        /\ args.packages_source = "vendor" => InList(Vendor, dependencies)

\* The list of a run with vendor, two projects on the command line and both
\* dependency variables set, the project under test being an extension.
C13_Witness ==
    /\ ReposSet
    /\ args.packages_source = "vendor"
    /\ Len(args.projects) = 2
    /\ zuul_project = ExtFoo
    /\ InList(SkinBar, dependencies)
    /\ Len(dependencies) >= 8

\* C14: no project appears more than once in the list set_repos_to_clone
\* returns.
C14_NoDuplicates ==
    ReposSet =>
        \A i \in DOMAIN dependencies :
            Occurrences(dependencies[i], dependencies) = 1

\* The stop of a backend failed after call i.
StopFailedAfter(i) ==
    \E k \in DOMAIN calls : k > i /\ calls[k].op = "stop" /\ ~ calls[k].ok

\* C15: a teardown failure neither masks the original error nor stops the
\* teardown. When a stage executor has raised and the stop of a backend has
\* failed after it, the error execute() raises is the failure of the
\* executor, and the stop of every backend that was started in a `with`
\* block has been invoked by the time execute() raises.
C15_TeardownFailureNotMasking ==
    \A i \in DOMAIN calls :
        (calls[i].op = "exec" /\ ~ calls[i].ok /\ StopFailedAfter(i)) =>
            /\ err = <<"exec", calls[i].what>>
            /\ pc \in {"raised", "Failed"} =>
                  \A b \in Backends \ {"db"} :
                      StartedOk(b) => Called("stop", b)
            /\ pc = "Failed" => (StartedOk("db") => Called("stop", "db"))

\* run_webdriver raised and the stop of ChromeWebDriver failed after it: the
\* stops of Xvfb and of the web server were invoked all the same, and
\* execute() has raised the failure of run_webdriver.
C15_Witness ==
    /\ pc = "raised"
    /\ err = <<"exec", "run_webdriver">>
    /\ \E k \in DOMAIN calls :
          /\ IsCall(k, "stop", "chrome") /\ ~ calls[k].ok
          /\ \E x \in DOMAIN calls : x > k /\ IsCall(x, "stop", "xvfb")
          /\ \E w \in DOMAIN calls : w > k /\ IsCall(w, "stop", "web")

\* C16: an unsupported database engine fails fast with a configuration
\* error. In every run whose engine is not sqlite, mysql or postgres, the
\* first step of execute() raises the error of the argument parser, and no
\* backend start and no external command is ever invoked.
C16_UnsupportedEngineFailsFast ==
    args.db \notin {"sqlite", "mysql", "postgres"} =>
        /\ \A i \in DOMAIN calls : calls[i].op = "stop"
        /\ \A b \in Backends : bstate[b] = "not started"
        /\ pc # "execute" =>
              /\ pc \in {"raised", "Failed"}
              /\ err = <<"exit", "parse_arguments">>

\* A run with --db oracle has ended, in Failed.
C16_Witness ==
    /\ args.db = "oracle"
    /\ pc = "Failed"
    /\ err = <<"exit", "parse_arguments">>
    /\ ~ Called("start", "db")

\* The backends of the browser-stage group, and what is invoked inside it.
GroupBackends == {"web", "xvfb", "chrome"}
GroupCalls == GroupBackends \cup {"run_qunit", "run_webdriver"}

\* The starts of backends of the browser-stage group that returned.
GroupStarts ==
    {i \in DOMAIN calls :
        calls[i].op = "start" /\ calls[i].ok /\ calls[i].what \in GroupBackends}

\* C17: the backends of the browser-stage group are released in the reverse
\* of the order they were acquired in: of two that were started, the one
\* started later is stopped first. Between the start of the web server and
\* its stop nothing but the group is invoked, and once the group is left,
\* by its last stage returning or raising or by a start in it failing, the
\* stop of every backend it had started has been invoked: the web server is
\* stopped before the database-backed phpunit stage.
C17_ReverseRelease ==
    /\ \A i \in GroupStarts : \A j \in GroupStarts :
          i < j =>
              \A k \in i + 1 .. Len(calls) :
                  IsCall(k, "stop", calls[i].what) =>
                      \E l \in j + 1 .. k - 1 : IsCall(l, "stop", calls[j].what)
    /\ \A i \in GroupStarts :
          calls[i].what = "web" =>
              \A j \in i + 1 .. Len(calls) :
                  calls[j].what \notin GroupCalls =>
                      \E k \in i + 1 .. j - 1 : IsCall(k, "stop", "web")
    /\ PastBrowserGroup =>
          \A b \in GroupBackends : StartedOk(b) => Called("stop", b)

\* The start of ChromeWebDriver failed with Xvfb and the web server running:
\* Xvfb was stopped, then the web server, and execute() has raised.
C17_Witness ==
    /\ pc = "raised"
    /\ err = <<"start", "chrome">>
    /\ \E x \in DOMAIN calls :
          /\ IsCall(x, "stop", "xvfb")
          /\ \E w \in DOMAIN calls : w > x /\ IsCall(w, "stop", "web")

\* The stage executors.
Executors ==
    {"run_extskin", "run_phpunit_databaseless", "run_core", "run_qunit",
     "run_webdriver", "run_phpunit_database", "commands"}

\* Call d does again what call c did: it invokes the same stage executor,
\* or it starts a backend of the same kind, whether c succeeded or not.
Repeats(c, d) ==
    /\ c.op = d.op
    /\ \/ c.op = "exec" /\ c.what = d.what /\ c.what \in Executors
       \/ c.op = "start" /\ Kind(c.what) = Kind(d.what)

\* C18: nothing is retried or repeated. In a run each stage executor is
\* invoked at most once, failed invocations counted, and a backend of each
\* kind is started at most once, so that at most one HTTP server on port
\* 9412 is running at any time.
C18_NothingRepeated ==
    /\ \A i \in DOMAIN calls :
          \A j \in i + 1 .. Len(calls) : ~ Repeats(calls[i], calls[j])
    /\ ~ (bstate["web"] = "running" /\ bstate["cmdweb"] = "running")
    /\ \A i \in DOMAIN calls :
          (calls[i].op = "start" /\ Kind(calls[i].what) = "http-server")
              => calls[i].arg = 9412

\* run_webdriver failed in a run that had started a backend of each of the
\* four kinds, and the run has ended: the executor was invoked once.
C18_Witness ==
    /\ pc = "Failed"
    /\ err = <<"exec", "run_webdriver">>
    /\ Count("exec", "run_webdriver") = 1
    /\ Count("exec", "run_qunit") = 1
    /\ \A b \in {"db", "web", "xvfb", "chrome"} : Count("start", b) = 1

\* The report paths the calls of an executor were given.
ReportPaths(what) ==
    {calls[i].arg : i \in {j \in DOMAIN calls : IsCall(j, "exec", what)}}

\* C19: in a run that ended without a failure and has phpunit selected, the
\* no-database phpunit group and the database-backed one are each invoked
\* exactly once, the first before everything of the browser-stage group and
\* the second after it, the first reporting to junit-dbless.xml and the
\* second to junit-db.xml. In a run that has phpunit not selected neither is
\* ever invoked.
C19_PhpunitGroupsOnce ==
    /\ (pc = "Succeeded" /\ should_run("phpunit")) =>
          /\ Count("exec", "run_phpunit_databaseless") = 1
          /\ Count("exec", "run_phpunit_database") = 1
          /\ ReportPaths("run_phpunit_databaseless") = {<<"junit-dbless.xml">>}
          /\ ReportPaths("run_phpunit_database") = {<<"junit-db.xml">>}
          /\ \A i \in DOMAIN calls : \A j \in DOMAIN calls :
                (IsCall(i, "exec", "run_phpunit_databaseless")
                    /\ calls[j].what \in GroupCalls) => i < j
          /\ \A i \in DOMAIN calls : \A j \in DOMAIN calls :
                (IsCall(i, "exec", "run_phpunit_database")
                    /\ calls[j].what \in GroupCalls) => j < i
    /\ ~ should_run("phpunit") =>
          /\ ~ Called("exec", "run_phpunit_databaseless")
          /\ ~ Called("exec", "run_phpunit_database")

\* A run with phpunit and both browser stages has ended in Succeeded.
C19_Witness ==
    /\ pc = "Succeeded"
    /\ should_run("phpunit")
    /\ Called("exec", "run_phpunit_database")
    /\ Called("exec", "run_qunit")
    /\ Called("exec", "run_webdriver")
    /\ Called("stop", "web")

\* A run that has phpunit not selected went through the browser-stage group
\* and ended in Succeeded.
C19_WitnessNotSelected ==
    /\ pc = "Succeeded"
    /\ ~ should_run("phpunit")
    /\ Called("exec", "run_qunit")

\* C20: run_webdriver is invoked only when selenium is selected and
\* tests/selenium exists. While it executes the database, the web server and
\* the browser driver are running, and the display it is given is that of a
\* running Xvfb or, no Xvfb having been started, the DISPLAY of the
\* environment. When selenium is selected and tests/selenium does not exist,
\* neither Xvfb nor ChromeWebDriver is started.
C20_WebdriverPreconditions ==
    /\ (pc = "webdriver" \/ Called("exec", "run_webdriver")) =>
          should_run("selenium") /\ tests_selenium = "exists"
    /\ pc = "webdriver" =>
          /\ \A b \in {"db", "web", "chrome"} : bstate[b] = "running"
          /\ \/ /\ bstate["xvfb"] = "running"
                /\ \E i \in DOMAIN calls :
                      IsCall(i, "start", "xvfb") /\ calls[i].arg = display
             \/ /\ bstate["xvfb"] = "not started"
                /\ display = DISPLAY
                /\ DISPLAY \notin {None, EmptyString}
    /\ \A i \in DOMAIN calls :
          IsCall(i, "exec", "run_webdriver") => calls[i].arg = display
    /\ (should_run("selenium") /\ tests_selenium = "missing") =>
          ~ Called("start", "xvfb") /\ ~ Called("start", "chrome")

\* run_webdriver has returned, on the display of an Xvfb that is still
\* running.
C20_Witness ==
    /\ pc = "exit_chrome"
    /\ \E i \in DOMAIN calls : IsCall(i, "exec", "run_webdriver") /\ calls[i].ok
    /\ bstate["xvfb"] = "running"
    /\ display = <<":94">>

\* A run with selenium selected and no tests/selenium has ended.
C20_WitnessMissing ==
    /\ pc = "Succeeded"
    /\ should_run("selenium")
    /\ tests_selenium = "missing"
    /\ Called("stop", "web")

\* The selenium stage is about to run, or has been: it is selected and
\* tests/selenium exists.
SeleniumDue == should_run("selenium") /\ tests_selenium = "exists"

\* The environment provides no display: DISPLAY is unset or empty.
NoDisplay == DISPLAY \in {None, EmptyString}

\* The calls that are given a display to use: the start of the browser
\* driver and the selenium stage.
UsesDisplay(i) ==
    IsCall(i, "start", "chrome") \/ IsCall(i, "exec", "run_webdriver")

\* C21: an Xvfb is started exactly when the selenium stage is about to run
\* and DISPLAY is unset or empty. It is then started on ':94' before the
\* browser driver, and the driver and run_webdriver are given ':94'. When
\* DISPLAY is set no Xvfb is started, and the driver and run_webdriver are
\* given the DISPLAY of the environment.
C21_XvfbExactlyWithoutDisplay ==
    /\ Called("start", "xvfb") => SeleniumDue /\ NoDisplay
    /\ (SeleniumDue /\ NoDisplay /\ pc # "xvfb") => Count("start", "xvfb") = 1
    /\ \A i \in DOMAIN calls :
          IsCall(i, "start", "xvfb") => calls[i].arg = <<":94">>
    /\ \A j \in DOMAIN calls :
          UsesDisplay(j) =>
              IF NoDisplay
              THEN /\ calls[j].arg = <<":94">>
                   /\ \E i \in 1 .. j - 1 :
                         IsCall(i, "start", "xvfb") /\ calls[i].ok
              ELSE calls[j].arg = DISPLAY

\* A run without DISPLAY has ended after run_webdriver returned on ':94',
\* the Xvfb started before the driver.
C21_Witness ==
    /\ pc = "Succeeded"
    /\ DISPLAY \in {None, EmptyString}
    /\ \E i \in DOMAIN calls : \E j \in DOMAIN calls : \E k \in DOMAIN calls :
          /\ i < j /\ j < k
          /\ IsCall(i, "start", "xvfb") /\ calls[i].arg = <<":94">>
          /\ IsCall(j, "start", "chrome") /\ calls[j].arg = <<":94">>
          /\ IsCall(k, "exec", "run_webdriver") /\ calls[k].ok

\* A run with DISPLAY set has ended after run_webdriver returned, no Xvfb
\* started.
C21_WitnessDisplaySet ==
    /\ pc = "Succeeded"
    /\ DISPLAY = <<":94">>
    /\ \E k \in DOMAIN calls :
          IsCall(k, "exec", "run_webdriver") /\ calls[k].ok /\ calls[k].arg = <<":94">>
    /\ ~ Called("start", "xvfb")

====
